---- MODULE Spec2Model ----
(***************************************************************************)
(* Decision Copilot: the decision-run route handler (handleIntake,         *)
(* handleClarification), its lens orchestration and the run store          *)
(* (MongoDB collection "runs" with the in-memory Map fallback).            *)
(*                                                                         *)
(* Each HTTP request is one process.  A request runs synchronously from    *)
(* one await that leaves the process (the LLM call of the lens, the        *)
(* MongoClient connect) to the next; those stretches are the actions.      *)
(* Objects that live in the JavaScript heap are modelled by reference:     *)
(* the Map of the fallback store holds references, not copies.             *)
(***************************************************************************)
EXTENDS Integers, Sequences, FiniteSets, TLC

\* ---------------------------------------------------------------- bounds
\* Number of HTTP requests (POST /api/decision/run) in one process lifetime.
NReq == 3

Req == 1..NReq

\* ------------------------------------------------------------- constants
\* The lenses the product documents (type Lens, README "Three-lens analysis").
ConfiguredLenses == <<"risk", "reversibility", "people">>

\* The status a run must have to accept a clarification.
AWAITING == "awaiting_clarification"

\* JavaScript undefined for an optional string field.
UNDEF == "<undefined>"

\* Option values: <<>> is null / undefined, <<v>> is the value v.
None == <<>>
Some(v) == <<v>>

\* String.prototype.trim on the strings the model uses.
trim(s) == IF s \in {"", " ", "  "} THEN "" ELSE s

\* JavaScript truthiness of `s?.trim()` for an optional string.
truthyTrim(s) == s # UNDEF /\ trim(s) # ""

\* Identifiers (decision_id, run_id) are naturals; 0 is the missing or empty
\* string, so `!id?.trim()` is id = 0.
randomUUID_run(p) == p
randomUUID_decision(p) == 100 + p

RunIds == Req

\* --------------------------------------------------------------- inputs
isValidPosture(posture) ==
    posture \in {"explore", "pressure_test", "surface_risks", "generate_alternatives"}

validateIntake(intake) ==
    IF ~truthyTrim(intake.situation) THEN "situation is required"
    ELSE IF ~truthyTrim(intake.constraints) THEN "constraints is required"
    ELSE IF intake.posture = UNDEF \/ ~isValidPosture(intake.posture)
        THEN "posture must be one of: explore, pressure_test, surface_risks, generate_alternatives"
    ELSE IF intake.posture = "pressure_test" /\ ~truthyTrim(intake.leaning_direction)
        THEN "leaning_direction is required when posture is pressure_test"
    ELSE "null"

\* Ids are numbered: 0 is the missing or empty string, BlankId a string of
\* white space only, a positive number a UUID.  id?.trim()
BlankId == 0 - 1
trimId(id) == IF id = BlankId THEN 0 ELSE id

\* As validateClarificationRequest, without the check of the answers.
validateClarificationRequest_NoAnswersCheck(req) ==
    IF trimId(req.decision_id) = 0 THEN "decision_id is required"
    ELSE IF trimId(req.run_id) = 0 THEN "run_id is required"
    ELSE "null"

validateClarificationRequest(req) ==
    IF trimId(req.decision_id) = 0 THEN "decision_id is required"
    ELSE IF trimId(req.run_id) = 0 THEN "run_id is required"
    ELSE IF Len(req.clarification.answers) = 0 THEN "clarification.answers is required"
    ELSE "null"

\* Request bodies of type "intake" that clients send.
IntakeBodies ==
    { [decision_id |-> d, situation |-> s, constraints |-> "3mo, 2 devs",
       posture |-> "explore", leaning_direction |-> UNDEF] :
         d \in {0, 201}, s \in {"Switch DB"} }
    \cup
    { [decision_id |-> 0, situation |-> " ", constraints |-> "3mo, 2 devs",
       posture |-> "explore", leaning_direction |-> UNDEF] }

Answer(q, v) == [question_id |-> q, lens |-> "risk", answer |-> v, answer_type |-> "enum"]

\* The clarification part of the request bodies of type "clarification".
ClarificationBody(d, round, answers) ==
    [decision_id |-> d,
     clarification |-> [clarification_round |-> round, answers |-> answers]]

\* Bodies that pass validateClarificationRequest (run_id apart).
ClarificationBodies ==
    { ClarificationBody(201, 1, <<Answer("q1", "Intermediate")>>),
      ClarificationBody(202, 2, <<Answer("q2", "Expert")>>) }

ClarificationRequest(run_id, body) ==
    [type |-> "clarification", decision_id |-> body.decision_id,
     run_id |-> run_id, clarification |-> body.clarification]

\* Requests that validateClarificationRequest rejects.
BadClarificationRequests ==
    { ClarificationRequest(1, ClarificationBody(0, 1, <<Answer("q1", "Intermediate")>>)),
      ClarificationRequest(0, ClarificationBody(201, 1, <<Answer("q1", "Intermediate")>>)),
      ClarificationRequest(1, ClarificationBody(BlankId, 1, <<Answer("q1", "Intermediate")>>)),
      ClarificationRequest(BlankId, ClarificationBody(201, 1, <<Answer("q1", "Intermediate")>>)),
      ClarificationRequest(1, ClarificationBody(201, 1, <<>>)) }

\* ---------------------------------------------------------------- lenses
Question(q) == [question_id |-> q, lens |-> "risk", question_text |-> q,
                answer_type |-> "enum", required |-> TRUE]

\* What parseRiskOutput can return for the structured LLM answer: the model
\* keeps the analytical payload (top_risks) and the follow-up questions.
RiskOutput(risks, qs) ==
    [lens |-> "risk", confidence |-> "medium", top_risks |-> risks,
     questions_to_answer_next |-> qs]

RiskOutputs ==
    { RiskOutput(<<"r1">>, <<>>),
      RiskOutput(<<"r2">>, <<Question("q1")>>) }

RECURSIVE flatQuestions(_)
flatQuestions(outs) ==
    IF outs = <<>> THEN <<>>
    ELSE Head(outs).questions_to_answer_next \o flatQuestions(Tail(outs))

RECURSIVE dedupQuestions(_, _)
dedupQuestions(qs, seen) ==
    IF qs = <<>> THEN <<>>
    ELSE IF Head(qs).question_id \in seen THEN dedupQuestions(Tail(qs), seen)
    ELSE <<Head(qs)>> \o dedupQuestions(Tail(qs), seen \cup {Head(qs).question_id})

extractClarificationQuestions_Dedup(lensOutputs) ==
    dedupQuestions(flatQuestions(lensOutputs), {})

extractClarificationQuestions(lensOutputs) == flatQuestions(lensOutputs)

\* runLenses awaits runRiskLens(intake) and wraps its output; the
\* clarifications parameter is unused.
runLenses(riskOutput) == <<riskOutput>>

\* The arguments one runRiskLens(intake, clarifications = []) call receives.
runRiskLensCall(intake, clarifications) ==
    [lens |-> "risk", intake |-> intake, clarifications |-> clarifications]

\* The lens evaluator calls runLenses(intake, _clarifications) makes:
\* runRiskLens(intake), whose clarifications parameter takes its default.
runLensesCalls(intake, unusedClarifications) == <<runRiskLensCall(intake, <<>>)>>

\* The brief stub: resolves, always, to the same placeholder.
synthesizeBrief ==
    [summary |-> "Pending implementation", recommendation |-> "Pending implementation",
     key_considerations |-> <<>>, next_steps |-> <<>>]


\* ----------------------------------------------------------------- state
VARIABLES
    database_db,        \* database.db is set (MongoClient connected)
    useMemoryFallback,  \* runs.ts: let useMemoryFallback
    warnings,           \* number of console.warn("MongoDB unavailable...") calls
    collection,         \* documents of the MongoDB collection "runs", in insertion order
    memoryStore,        \* runs.ts: Map run_id -> reference to a heap object (0: no entry)
    heap,               \* run objects of the process, named by the request that created them
    pc,                 \* where each request is
    req,                \* the body each request was sent with
    existingRun,        \* handleClarification: reference held in existingRun (0: none yet)
    before,             \* what getRun returned to the request (a copy, for the properties)
    response,           \* the HTTP response of each request
    ranLenses           \* the request has called runLenses

vars == <<database_db, useMemoryFallback, warnings, collection, memoryStore, heap,
          pc, req, existingRun, before, response, ranLenses>>

NoResponse == [status |-> 0, error |-> "", body |-> None]
ErrorResponse(code, msg) == [status |-> code, error |-> msg, body |-> None]
JsonResponse(run) == [status |-> 200, error |-> "", body |-> Some(run)]

Init ==
    /\ database_db = FALSE
    /\ useMemoryFallback = FALSE
    /\ warnings = 0
    /\ collection = <<>>
    /\ memoryStore = [r \in RunIds |-> 0]
    /\ heap = [p \in Req |-> None]
    /\ pc = [p \in Req |-> "idle"]
    /\ req = [p \in Req |-> [type |-> "none"]]
    /\ existingRun = [p \in Req |-> 0]
    /\ before = [p \in Req |-> None]
    /\ response = [p \in Req |-> NoResponse]
    /\ ranLenses = [p \in Req |-> FALSE]

\* ------------------------------------------------------------- run store
\* As NeedsConnect, but ensureConnection calls database.connect() whatever
\* useMemoryFallback is.
NeedsConnect_Retry == ~database_db

\* ensureConnection has to await MongoClient.connect: no fallback yet and
\* database.connect() does not return the cached db.
NeedsConnect == ~useMemoryFallback /\ ~database_db

\* ensureConnection's result when it does not have to wait for a connect.
ensureConnection == ~useMemoryFallback

\* Index of the document findOne({run_id}) / updateOne({run_id}, ...) selects.
DocIndex(coll, run_id) ==
    IF \E i \in 1..Len(coll) : coll[i].run_id = run_id
    THEN CHOOSE i \in 1..Len(coll) :
           /\ coll[i].run_id = run_id
           /\ \A j \in 1..(i-1) : coll[j].run_id # run_id
    ELSE 0

findOne(coll, run_id) ==
    IF DocIndex(coll, run_id) = 0 THEN None ELSE Some(coll[DocIndex(coll, run_id)])

\* insertOne({...result, createdAt: new Date()})
insertOne(coll, result) == Append(coll, [createdAt |-> "Date"] @@ result)

\* As updateOne, with the filter {decision_id: result.decision_id}.
updateOne_ByDecisionId(coll, run_id, result) ==
    IF \A i \in 1..Len(coll) : coll[i].decision_id # result.decision_id THEN coll
    ELSE LET k == CHOOSE i \in 1..Len(coll) :
                     /\ coll[i].decision_id = result.decision_id
                     /\ \A j \in 1..(i-1) : coll[j].decision_id # result.decision_id
         IN [coll EXCEPT ![k] = ([updatedAt |-> "Date"] @@ result) @@ @]

\* updateOne({run_id}, {$set: {...result, updatedAt: new Date()}})
updateOne(coll, run_id, result) ==
    IF DocIndex(coll, run_id) = 0 THEN coll
    ELSE [coll EXCEPT ![DocIndex(coll, run_id)] = ([updatedAt |-> "Date"] @@ result) @@ @]

\* memoryStore.get(run_id) ?? null, dereferenced
memoryGet(run_id) == IF memoryStore[run_id] = 0 THEN None ELSE heap[memoryStore[run_id]]

\* As getRun, but reading the Map whatever ensureConnection returned.
getRun_AlwaysMemory(connected, run_id) == memoryGet(run_id)

\* getRun(run_id) once ensureConnection has returned `connected`.
getRun(connected, run_id) ==
    IF connected THEN findOne(collection, run_id) ELSE memoryGet(run_id)

\* insertRun(result) once ensureConnection has returned `connected`;
\* ref is the heap object `result`.
insertRun(connected, result, ref) ==
    IF connected
    THEN /\ collection' = insertOne(collection, result)
         /\ memoryStore' = memoryStore
    ELSE /\ memoryStore' = [memoryStore EXCEPT ![result.run_id] = ref]
         /\ collection' = collection

\* replaceRun(run_id, result) once ensureConnection has returned `connected`.
replaceRun(connected, run_id, result, ref) ==
    IF connected
    THEN /\ collection' = updateOne(collection, run_id, result)
         /\ memoryStore' = memoryStore
    ELSE /\ memoryStore' = [memoryStore EXCEPT ![run_id] = ref]
         /\ collection' = collection

\* What a getRun(run_id) issued now returns.  Before the first connection
\* attempt has ended both stores are empty, whatever the attempt's outcome.
StoredRun(run_id) ==
    IF useMemoryFallback THEN memoryGet(run_id)
    ELSE IF database_db THEN findOne(collection, run_id)
    ELSE None


\* --------------------------------------------------------- route handler
\* handleIntake: decision_id, run_id and the intake object built from the body.
IntakeOf(p) ==
    [req[p].intake EXCEPT
       !.decision_id = IF req[p].intake.decision_id # 0
                       THEN req[p].intake.decision_id ELSE randomUUID_decision(p)]

\* As IntakeResult, but the brief is synthesized whatever clarification_needed is.
IntakeResult_BriefAlways(p, lens_outputs) ==
    LET clarification_questions == extractClarificationQuestions(lens_outputs)
        clarification_needed == Len(clarification_questions) > 0
    IN [decision_id |-> IntakeOf(p).decision_id,
        run_id |-> randomUUID_run(p),
        status |-> IF clarification_needed THEN AWAITING ELSE "complete",
        intake |-> IntakeOf(p),
        clarification_questions |-> clarification_questions,
        clarification_needed |-> clarification_needed,
        clarifications |-> <<>>,
        lens_outputs |-> lens_outputs,
        decision_brief |-> Some(synthesizeBrief)]

\* handleIntake, from the return of runLenses to the result object.
IntakeResult(p, lens_outputs) ==
    LET clarification_questions == extractClarificationQuestions(lens_outputs)
        clarification_needed == Len(clarification_questions) > 0
    IN [decision_id |-> IntakeOf(p).decision_id,
        run_id |-> randomUUID_run(p),
        status |-> IF clarification_needed THEN AWAITING ELSE "complete",
        intake |-> IntakeOf(p),
        clarification_questions |-> clarification_questions,
        clarification_needed |-> clarification_needed,
        clarifications |-> <<>>,
        lens_outputs |-> lens_outputs,
        decision_brief |-> IF clarification_needed THEN None ELSE Some(synthesizeBrief)]

\* handleIntake: await insertRun(result); return NextResponse.json(result)
IntakePersist(p, connected, result) ==
    /\ insertRun(connected, result, p)
    /\ response' = [response EXCEPT ![p] = JsonResponse(result)]
    /\ pc' = [pc EXCEPT ![p] = "done"]

\* handleClarification: the Clarification built from the request.
ClarificationOf(r) ==
    [decision_id |-> r.decision_id,
     run_id |-> r.run_id,
     clarification_round |-> r.clarification.clarification_round,
     answers |-> r.clarification.answers]

\* As StartProcessing, without the push.
StartProcessing_NoPush(run, clarification) ==
    [run EXCEPT !.status = "processing_clarification"]

\* As StartProcessing, with the clarification's decision_id spread over the run.
StartProcessing_AdoptsDecisionId(run, clarification) ==
    [run EXCEPT !.clarifications = Append(@, clarification),
                !.status = "processing_clarification",
                !.decision_id = clarification.decision_id]

\* handleClarification: existingRun.clarifications.push(clarification);
\* existingRun.status = "processing_clarification"
StartProcessing(run, clarification) ==
    [run EXCEPT !.clarifications = Append(@, clarification),
                !.status = "processing_clarification"]

\* handleClarification: existingRun.status !== "awaiting_clarification"
StatusConflict_Never(run) == FALSE

StatusConflict(run) == run.status # AWAITING

\* handleClarification, from the return of getRun to the call of runLenses.
\* A run read from MongoDB is a new object of this request; a run read from
\* the Map is the object the Map refers to.
ClarAfterGet(p, r, connected) ==
    LET run_id == r.run_id
        found == getRun(connected, run_id)
        ref == IF connected THEN p ELSE memoryStore[run_id]
    IN /\ before' = [before EXCEPT ![p] = found]
       /\ UNCHANGED <<collection, memoryStore>>
       /\ IF found = None
          THEN /\ response' = [response EXCEPT ![p] =
                     ErrorResponse(404, "Run not found. Please start a new decision.")]
               /\ pc' = [pc EXCEPT ![p] = "done"]
               /\ UNCHANGED <<heap, existingRun, ranLenses>>
          ELSE IF StatusConflict(found[1])
          THEN /\ response' = [response EXCEPT ![p] =
                     ErrorResponse(400, "Cannot submit clarification for run in status")]
               /\ pc' = [pc EXCEPT ![p] = "done"]
               /\ UNCHANGED <<heap, existingRun, ranLenses>>
          ELSE /\ heap' = [heap EXCEPT ![ref] = Some(StartProcessing(found[1], ClarificationOf(r)))]
               /\ existingRun' = [existingRun EXCEPT ![p] = ref]
               /\ ranLenses' = [ranLenses EXCEPT ![p] = TRUE]
               /\ pc' = [pc EXCEPT ![p] = "lenses"]
               /\ UNCHANGED response

\* As Complete, without existingRun.status = "complete".
Complete_StaysProcessing(run, lens_outputs, decision_brief) ==
    [run EXCEPT !.lens_outputs = lens_outputs,
                !.decision_brief = Some(decision_brief),
                !.clarification_needed = FALSE,
                !.clarification_questions = <<>>]

\* As Complete, without existingRun.clarification_questions = [].
Complete_KeepsQuestions(run, lens_outputs, decision_brief) ==
    [run EXCEPT !.lens_outputs = lens_outputs,
                !.decision_brief = Some(decision_brief),
                !.status = "complete",
                !.clarification_needed = FALSE]

\* handleClarification, the assignments after runLenses and synthesizeBrief.
Complete(run, lens_outputs, decision_brief) ==
    [run EXCEPT !.lens_outputs = lens_outputs,
                !.decision_brief = Some(decision_brief),
                !.status = "complete",
                !.clarification_needed = FALSE,
                !.clarification_questions = <<>>]

\* handleClarification: await replaceRun(req.run_id, existingRun);
\* return NextResponse.json(existingRun)
ClarPersist(p, connected, run) ==
    /\ replaceRun(connected, req[p].run_id, run, existingRun[p])
    /\ response' = [response EXCEPT ![p] = JsonResponse(run)]
    /\ pc' = [pc EXCEPT ![p] = "done"]

\* Requests are numbered in the order they arrive.
Arrives(p) == pc[p] = "idle" /\ \A q \in Req : q < p => pc[q] # "idle"

\* The run_ids a client can send: run_ids are random UUIDs, so a client knows
\* those it has received in a response; any other id names no run (the
\* model takes the id no intake of this client will get: the request's own).
KnownRunIds(p) ==
    { response[q].body[1].run_id : q \in { q \in Req : response[q].body # None } } \cup {p}

\* POST with body.type = "intake": handleIntake up to the call of runLenses.
SubmitIntake(p, body) ==
    /\ Arrives(p)
    /\ req' = [req EXCEPT ![p] = [type |-> "intake", intake |-> body]]
    /\ IF validateIntake(body) # "null"
       THEN /\ response' = [response EXCEPT ![p] = ErrorResponse(400, validateIntake(body))]
            /\ pc' = [pc EXCEPT ![p] = "done"]
            /\ UNCHANGED ranLenses
       ELSE /\ pc' = [pc EXCEPT ![p] = "lenses"]
            /\ ranLenses' = [ranLenses EXCEPT ![p] = TRUE]
            /\ UNCHANGED response
    /\ UNCHANGED <<database_db, useMemoryFallback, warnings, collection, memoryStore,
                   heap, existingRun, before>>

\* The clarification requests a client can send as request p.
ClarificationRequests(p) ==
    { ClarificationRequest(run_id, body) :
        run_id \in KnownRunIds(p), body \in ClarificationBodies }
    \cup BadClarificationRequests

AllClarificationRequests ==
    { ClarificationRequest(run_id, body) : run_id \in RunIds, body \in ClarificationBodies }
    \cup BadClarificationRequests

\* POST with body.type = "clarification": handleClarification up to getRun,
\* and on to runLenses when ensureConnection does not wait.
SubmitClarification(p, r) ==
    /\ Arrives(p)
    /\ r \in ClarificationRequests(p)
    /\ req' = [req EXCEPT ![p] = r]
    /\ IF validateClarificationRequest(r) # "null"
       THEN /\ response' = [response EXCEPT ![p] =
                  ErrorResponse(400, validateClarificationRequest(r))]
            /\ pc' = [pc EXCEPT ![p] = "done"]
            /\ UNCHANGED <<heap, existingRun, before, ranLenses, collection, memoryStore>>
       ELSE IF NeedsConnect
       THEN /\ pc' = [pc EXCEPT ![p] = "connecting"]
            /\ UNCHANGED <<heap, existingRun, before, ranLenses, collection, memoryStore,
                           response>>
       ELSE ClarAfterGet(p, r, ensureConnection)
    /\ UNCHANGED <<database_db, useMemoryFallback, warnings>>

\* runLenses resolves with the risk lens's output.  handleIntake goes on to
\* insertRun; handleClarification completes existingRun and goes on to
\* replaceRun.
LensesResolve(p, riskOutput) ==
    /\ pc[p] = "lenses"
    /\ LET lens_outputs == runLenses(riskOutput) IN
       IF req[p].type = "intake"
       THEN LET result == IntakeResult(p, lens_outputs) IN
            /\ heap' = [heap EXCEPT ![p] = Some(result)]
            /\ IF NeedsConnect
               THEN /\ pc' = [pc EXCEPT ![p] = "connecting"]
                    /\ UNCHANGED <<collection, memoryStore, response>>
               ELSE IntakePersist(p, ensureConnection, result)
       ELSE LET run == Complete(heap[existingRun[p]][1], lens_outputs, synthesizeBrief) IN
            /\ heap' = [heap EXCEPT ![existingRun[p]] = Some(run)]
            /\ IF NeedsConnect
               THEN /\ pc' = [pc EXCEPT ![p] = "connecting"]
                    /\ UNCHANGED <<collection, memoryStore, response>>
               ELSE ClarPersist(p, ensureConnection, run)
    /\ UNCHANGED <<database_db, useMemoryFallback, warnings, req, existingRun, before,
                   ranLenses>>

\* As LensesReject, but handleIntake catches the error and stores the run
\* without lens outputs.
LensesReject_StoresPartial(p) ==
    /\ pc[p] = "lenses"
    /\ response' = [response EXCEPT ![p] = ErrorResponse(500, "Internal server error")]
    /\ pc' = [pc EXCEPT ![p] = "done"]
    /\ IF req[p].type = "intake"
       THEN insertRun(ensureConnection, IntakeResult(p, <<>>), p)
       ELSE UNCHANGED <<collection, memoryStore>>
    /\ UNCHANGED <<database_db, useMemoryFallback, warnings,
                   heap, req, existingRun, before, ranLenses>>

\* runLenses rejects (runRiskLens throws: missing API key, HTTP error, no
\* structured output).  Neither handler catches it: the request fails.
LensesReject(p) ==
    /\ pc[p] = "lenses"
    /\ response' = [response EXCEPT ![p] = ErrorResponse(500, "Internal server error")]
    /\ pc' = [pc EXCEPT ![p] = "done"]
    /\ UNCHANGED <<database_db, useMemoryFallback, warnings, collection, memoryStore,
                   heap, req, existingRun, before, ranLenses>>

\* The store operation the request is in, once ensureConnection has returned.
AfterConnect(p, connected) ==
    IF req[p].type = "intake"
    THEN /\ IntakePersist(p, connected, heap[p][1])
         /\ UNCHANGED <<heap, existingRun, before, ranLenses>>
    ELSE IF ~ranLenses[p]
    THEN ClarAfterGet(p, req[p], connected)
    ELSE /\ ClarPersist(p, connected, heap[existingRun[p]][1])
         /\ UNCHANGED <<heap, existingRun, before, ranLenses>>

\* database.connect() resolves: this.db is set, ensureConnection returns true.
ConnectResolve(p) ==
    /\ pc[p] = "connecting"
    /\ database_db' = TRUE
    /\ AfterConnect(p, TRUE)
    /\ UNCHANGED <<useMemoryFallback, warnings, req>>

\* database.connect() throws: ensureConnection warns, sets useMemoryFallback
\* and returns false.
ConnectReject(p) ==
    /\ pc[p] = "connecting"
    /\ useMemoryFallback' = TRUE
    /\ warnings' = warnings + 1
    /\ AfterConnect(p, FALSE)
    /\ UNCHANGED <<database_db, req>>

Next ==
    \/ \E p \in Req, body \in IntakeBodies : SubmitIntake(p, body)
    \/ \E p \in Req, r \in AllClarificationRequests : SubmitClarification(p, r)
    \/ \E p \in Req, riskOutput \in RiskOutputs : LensesResolve(p, riskOutput)
    \/ \E p \in Req : LensesReject(p)
    \/ \E p \in Req : ConnectResolve(p)
    \/ \E p \in Req : ConnectReject(p)

Spec == Init /\ [][Next]_vars


\* ------------------------------------------------------------ properties
IsIntake(p) == req[p].type = "intake"
IsClarification(p) == req[p].type = "clarification"
Succeeded(p) == pc[p] = "done" /\ response[p].status = 200
LensFailed(p) == pc[p] = "done" /\ response[p].status = 500

\* The step in which request p ends with a 200 response, a 400 response.
SuccessStep(p) == pc[p] # "done" /\ pc'[p] = "done" /\ response'[p].status = 200
RejectStep(p) == pc[p] # "done" /\ pc'[p] = "done" /\ response'[p].status = 400

\* Every run object either store holds.
StoredRuns ==
    { collection[i] : i \in 1..Len(collection) }
    \cup { heap[memoryStore[r]][1] : r \in { r \in RunIds : memoryGet(r) # None } }

\* Every run a response carries.
ReturnedRuns == { response[p].body[1] : p \in { p \in Req : response[p].body # None } }

IsPrefix(s, t) == Len(s) <= Len(t) /\ SubSeq(t, 1, Len(s)) = s

RunFieldNames ==
    {"decision_id", "run_id", "status", "intake", "clarification_questions",
     "clarification_needed", "clarifications", "lens_outputs", "decision_brief"}

SameRun(a, b) == \A f \in RunFieldNames : a[f] = b[f]

Completed(run) ==
    /\ run.clarification_needed = FALSE
    /\ run.clarification_questions = <<>>
    /\ run.status = "complete"
    /\ run.decision_brief # None

\* C1: after a successful submitClarification, the run in the response, and
\* the run getRun(run_id) returns afterwards whenever it returns one, has
\* clarification_needed = false, clarification_questions = [], status =
\* "complete" and a decision_brief.
C1_ClarificationCompletion ==
    \A p \in Req :
        (IsClarification(p) /\ Succeeded(p)) =>
            /\ Completed(response[p].body[1])
            /\ StoredRun(req[p].run_id) # None => Completed(StoredRun(req[p].run_id)[1])

C1_Witness ==
    \E p \in Req :
        /\ IsClarification(p) /\ Succeeded(p)
        /\ StoredRun(req[p].run_id) # None
        /\ before[p][1].clarification_needed

\* C2: after a successful submitIntake, getRun(run_id) returns a run whose
\* status is awaiting_clarification or complete and whose lens_outputs has
\* one output per configured lens (risk, reversibility, people).
C2_CreateThenRead ==
    \A p \in Req :
        (IsIntake(p) /\ Succeeded(p) /\ StoredRun(randomUUID_run(p)) # None) =>
            LET run == StoredRun(randomUUID_run(p))[1] IN
            /\ run.status \in {AWAITING, "complete"}
            /\ Len(run.lens_outputs) = Len(ConfiguredLenses)

\* C3: when the lens evaluation of a submitClarification fails, and no other
\* submission for the run was accepted, getRun(run_id) returns the run
\* exactly as the failed submission found it.
C3_FailedClarificationLeavesRun ==
    \A p \in Req :
        ( /\ IsClarification(p) /\ LensFailed(p)
          /\ StoredRun(req[p].run_id) # None
          /\ \A q \in Req \ {p} :
               ~(IsClarification(q) /\ req[q].run_id = req[p].run_id /\ ranLenses[q]) )
        => StoredRun(req[p].run_id) = before[p]

\* C4: a clarification for a run whose status is not awaiting_clarification
\* is rejected with HTTP 400 without reaching the lenses, and the step that
\* rejects a request with 400 writes to neither store and to no run object.
C4_ClarificationGating ==
    /\ [](\A p \in Req :
            (IsClarification(p) /\ before[p] # None /\ before[p][1].status # AWAITING) =>
                /\ pc[p] = "done"
                /\ response[p].status = 400
                /\ ~ranLenses[p])
    /\ [][\A p \in Req : RejectStep(p) => UNCHANGED <<collection, memoryStore, heap>>]_vars

C4_Witness ==
    \E p \in Req :
        /\ IsClarification(p)
        /\ before[p] # None /\ before[p][1].status = "complete"
        /\ response[p].status = 400
        /\ StoredRun(req[p].run_id) = before[p]

\* C5: an intake whose lens evaluation fails creates no run: neither store
\* has an entry for its run_id, and the step in which it fails leaves both
\* stores as they were.
C5_NoRunOnLensFailure ==
    /\ [](\A p \in Req :
            (IsIntake(p) /\ LensFailed(p)) =>
                /\ \A i \in 1..Len(collection) : collection[i].run_id # randomUUID_run(p)
                /\ memoryStore[randomUUID_run(p)] = 0
                /\ StoredRun(randomUUID_run(p)) = None)
    /\ [][\A p \in Req :
            (IsIntake(p) /\ pc[p] = "lenses" /\ pc'[p] = "done" /\ response'[p].status = 500)
                => UNCHANGED <<collection, memoryStore>>]_vars

C5_Witness ==
    \E p, q \in Req :
        /\ IsIntake(p) /\ LensFailed(p)
        /\ IsIntake(q) /\ Succeeded(q)

\* C6: a successful submitIntake returns status awaiting_clarification and no
\* decision_brief when the lenses asked a question, status complete and a
\* decision_brief otherwise; and every stored run with status
\* awaiting_clarification has no decision_brief, every stored run with
\* status complete has one.
C6_BriefIffComplete ==
    /\ \A p \in Req :
         (IsIntake(p) /\ Succeeded(p)) =>
            LET run == response[p].body[1] IN
            IF extractClarificationQuestions(run.lens_outputs) # <<>>
            THEN run.status = AWAITING /\ run.decision_brief = None
            ELSE run.status = "complete" /\ run.decision_brief = Some(synthesizeBrief)
    /\ \A run \in StoredRuns :
         /\ run.status = AWAITING => run.decision_brief = None
         /\ run.status = "complete" => run.decision_brief # None

C6_Witness ==
    \E a, b \in StoredRuns :
        /\ a.status = AWAITING /\ a.decision_brief = None
        /\ b.status = "complete" /\ b.decision_brief # None /\ b.clarifications = <<>>

\* C7: in every run that is stored or returned, clarification_needed is true
\* exactly when clarification_questions is non-empty.
C7_NeededIffQuestions ==
    \A run \in StoredRuns \cup ReturnedRuns :
        run.clarification_needed <=> (run.clarification_questions # <<>>)

C7_Witness ==
    /\ \E run \in ReturnedRuns : run.clarification_needed /\ run.clarification_questions # <<>>
    /\ \E run \in StoredRuns : ~run.clarification_needed /\ run.clarifications # <<>>

\* C8: a clarification submission that reads the run while another
\* submission for the same run is in flight (accepted, not yet stored), and
\* before any submission for it has been stored, passes the
\* awaiting_clarification check as well; and the run a successful submission
\* stores is the run getRun returns right after (last writer wins).
C8_ConcurrentSubmissionsRace ==
    [][\A p \in Req :
         /\ ( /\ IsClarification(p)' /\ before[p] = None /\ before'[p] # None
              /\ \E q \in Req \ {p} :
                   IsClarification(q) /\ req[q].run_id = req'[p].run_id /\ pc[q] = "lenses"
              /\ \A q \in Req \ {p} :
                   ~(IsClarification(q) /\ req[q].run_id = req'[p].run_id /\ Succeeded(q)) )
            => ranLenses'[p]
         /\ (IsClarification(p) /\ SuccessStep(p)) =>
              /\ StoredRun(req[p].run_id)' # None
              /\ SameRun(StoredRun(req[p].run_id)'[1], response'[p].body[1])]_vars

\* C9, as stated: no round stored in a run's clarifications is ever removed
\* or replaced: the stored clarifications only grow at the end.
C9_StoredRoundsNeverRemoved ==
    [][\A r \in RunIds :
         (StoredRun(r) # None /\ StoredRun(r)' # None) =>
            IsPrefix(StoredRun(r)[1].clarifications, StoredRun(r)'[1].clarifications)]_vars

\* C9, amended: a successful submitClarification stores, as the run's
\* clarifications, the clarifications it read from the store followed by the
\* submitted clarification; unless another submission for the same run was
\* stored since that read, the rounds stored before are kept.
C9_AppendsToReadHistory ==
    [][\A p \in Req :
         (IsClarification(p) /\ SuccessStep(p)) =>
            /\ StoredRun(req[p].run_id)' # None
            /\ StoredRun(req[p].run_id)'[1].clarifications =
                 Append(before[p][1].clarifications, ClarificationOf(req[p]))
            /\ ( /\ StoredRun(req[p].run_id) # None
                 /\ \A q \in Req \ {p} :
                      ~(IsClarification(q) /\ req[q].run_id = req[p].run_id /\ Succeeded(q)) )
               => IsPrefix(StoredRun(req[p].run_id)[1].clarifications,
                           StoredRun(req[p].run_id)'[1].clarifications)]_vars

C9_Witness ==
    \E p \in Req :
        /\ IsClarification(p) /\ Succeeded(p)
        /\ StoredRun(req[p].run_id) # None
        /\ StoredRun(req[p].run_id)[1].clarifications = <<ClarificationOf(req[p])>>

\* C10: the status getRun returns for a run only ever changes from
\* awaiting_clarification to complete.
C10_StatusOnlyAwaitingToComplete ==
    [][\A r \in RunIds :
         ( /\ StoredRun(r) # None /\ StoredRun(r)' # None
           /\ StoredRun(r)'[1].status # StoredRun(r)[1].status )
         => (StoredRun(r)[1].status = AWAITING /\ StoredRun(r)'[1].status = "complete")]_vars


\* ------------------------------------------- intake validation, in isolation
\* Intake bodies over every combination of missing, blank and given fields.
ValidationIntakeBodies ==
    [decision_id : {0},
     situation : {UNDEF, "", " ", "Switch DB"},
     constraints : {UNDEF, " ", "3mo, 2 devs"},
     posture : {UNDEF, "explore", "pressure_test", "surface_risks",
                "generate_alternatives", "decide"},
     leaning_direction : {UNDEF, " ", "Migrate to Postgres"}]

\* One request, whose body is any of ValidationIntakeBodies, has been received.
InitIntakeValidation ==
    /\ database_db = FALSE
    /\ useMemoryFallback = FALSE
    /\ warnings = 0
    /\ collection = <<>>
    /\ memoryStore = [r \in RunIds |-> 0]
    /\ heap = [p \in Req |-> None]
    /\ pc = [p \in Req |-> "idle"]
    /\ \E body \in ValidationIntakeBodies :
         req = [p \in Req |-> IF p = 1 THEN [type |-> "intake", intake |-> body]
                              ELSE [type |-> "none"]]
    /\ existingRun = [p \in Req |-> 0]
    /\ before = [p \in Req |-> None]
    /\ response = [p \in Req |-> NoResponse]
    /\ ranLenses = [p \in Req |-> FALSE]

\* handleIntake runs on the received body, up to the call of runLenses.
ValidateIntakeStep == SubmitIntake(1, req[1].intake)

NextIntakeValidation == ValidateIntakeStep

SpecIntakeValidation == InitIntakeValidation /\ [][NextIntakeValidation]_vars

\* The intakes C11 says are rejected.
C11_ShouldReject(intake) ==
    \/ ~truthyTrim(intake.situation)
    \/ ~truthyTrim(intake.constraints)
    \/ ~isValidPosture(intake.posture)
    \/ truthyTrim(intake.leaning_direction) # (intake.posture = "pressure_test")

\* C11: submitIntake is rejected with a validation error exactly when
\* situation or constraints is empty or blank, or posture is not one of the
\* four postures, or leaning_direction is not present exactly when posture =
\* pressure_test; a rejected intake runs no lens and writes nothing.
C11_IntakeValidation ==
    \A p \in Req :
        (IsIntake(p) /\ pc[p] # "idle") =>
            /\ (response[p].status = 400) <=> C11_ShouldReject(req[p].intake)
            /\ response[p].status = 400 =>
                 /\ ~ranLenses[p]
                 /\ collection = <<>>
                 /\ \A r \in RunIds : memoryStore[r] = 0


\* The step in which request p ends with a 404 response.
NotFoundStep(p) == pc[p] # "done" /\ pc'[p] = "done" /\ response'[p].status = 404

StoreRunIds == {randomUUID_run(1), randomUUID_run(2)}

\* The runs passed to insertRun and replaceRun (the fields the store reads or
\* that tell two runs apart); getRun is also called with an id no run has.
StoreRuns ==
    [run_id : {randomUUID_run(1)}, decision_id : {randomUUID_decision(1)},
     status : {AWAITING, "complete"}]

StoreCalls ==
    [type : {"getRun"}, run_id : StoreRunIds]
    \cup [type : {"insertRun"}, result : StoreRuns]
    \cup { [type |-> "replaceRun", run_id |-> result.run_id, result |-> result] :
             result \in StoreRuns }

\* A store operation returns value to its caller / throws.
Returned(value) == [status |-> 0, error |-> "", body |-> value]
Thrown(msg) == [status |-> 0, error |-> msg, body |-> None]

\* The branch `if (!connected)` of the operation call p is in.
MemoryBranch(p, call) ==
    /\ pc' = [pc EXCEPT ![p] = "done"]
    /\ collection' = collection
    /\ IF call.type = "getRun"
       THEN /\ response' = [response EXCEPT ![p] = Returned(getRun(FALSE, call.run_id))]
            /\ memoryStore' = memoryStore
       ELSE /\ response' = [response EXCEPT ![p] = Returned(None)]
            /\ memoryStore' = [memoryStore EXCEPT ![call.result.run_id] = p]

\* ensureConnection has returned `connected` to the operation call p is in.
StoreAfterConnect(p, call, connected) ==
    IF connected
    THEN /\ pc' = [pc EXCEPT ![p] = "mongo"]
         /\ UNCHANGED <<collection, memoryStore, response>>
    ELSE MemoryBranch(p, call)

\* getRun / insertRun / replaceRun is called; it runs up to its first await
\* that waits: MongoClient.connect or the collection's operation.
StoreCall(p, call) ==
    /\ Arrives(p)
    /\ req' = [req EXCEPT ![p] = call]
    /\ heap' = [heap EXCEPT ![p] = IF call.type = "getRun" THEN None ELSE Some(call.result)]
    /\ IF NeedsConnect
       THEN /\ pc' = [pc EXCEPT ![p] = "connecting"]
            /\ UNCHANGED <<collection, memoryStore, response>>
       ELSE StoreAfterConnect(p, call, ensureConnection)
    /\ UNCHANGED <<database_db, useMemoryFallback, warnings, existingRun, before, ranLenses>>

StoreConnectResolve(p) ==
    /\ pc[p] = "connecting"
    /\ database_db' = TRUE
    /\ StoreAfterConnect(p, req[p], TRUE)
    /\ UNCHANGED <<useMemoryFallback, warnings, heap, req, existingRun, before, ranLenses>>

StoreConnectReject(p) ==
    /\ pc[p] = "connecting"
    /\ useMemoryFallback' = TRUE
    /\ warnings' = warnings + 1
    /\ StoreAfterConnect(p, req[p], FALSE)
    /\ UNCHANGED <<database_db, heap, req, existingRun, before, ranLenses>>

\* findOne / insertOne / updateOne resolves.
MongoResolve(p) ==
    /\ pc[p] = "mongo"
    /\ pc' = [pc EXCEPT ![p] = "done"]
    /\ memoryStore' = memoryStore
    /\ IF req[p].type = "getRun"
       THEN /\ response' = [response EXCEPT ![p] = Returned(getRun(TRUE, req[p].run_id))]
            /\ collection' = collection
       ELSE /\ response' = [response EXCEPT ![p] = Returned(None)]
            /\ IF req[p].type = "insertRun"
               THEN collection' = insertOne(collection, req[p].result)
               ELSE collection' = updateOne(collection, req[p].run_id, req[p].result)
    /\ UNCHANGED <<database_db, useMemoryFallback, warnings, heap, req, existingRun,
                   before, ranLenses>>

\* findOne / insertOne / updateOne rejects (the server went away after the
\* connect): nothing in runs.ts catches it, the operation throws.
MongoReject(p) ==
    /\ pc[p] = "mongo"
    /\ pc' = [pc EXCEPT ![p] = "done"]
    /\ response' = [response EXCEPT ![p] = Thrown("MongoNetworkError")]
    /\ UNCHANGED <<database_db, useMemoryFallback, warnings, collection, memoryStore,
                   heap, req, existingRun, before, ranLenses>>

NextStore ==
    \/ \E p \in Req, call \in StoreCalls : StoreCall(p, call)
    \/ \E p \in Req : StoreConnectResolve(p)
    \/ \E p \in Req : StoreConnectReject(p)
    \/ \E p \in Req : MongoResolve(p)
    \/ \E p \in Req : MongoReject(p)

SpecStore == Init /\ [][NextStore]_vars

\* The step in which call p of operation `type` returns without throwing.
ReturnStep(p, type) ==
    /\ pc[p] # "done" /\ pc'[p] = "done"
    /\ req'[p].type = type
    /\ response'[p].error = ""

SameMode == useMemoryFallback' = useMemoryFallback /\ database_db' = database_db

\* C13: insertRun is create-only: an insertRun for a run_id the store already
\* holds leaves what getRun returns for that run_id unchanged, and the
\* collection never holds two documents with one run_id.
C13_InsertCreateOnly ==
    /\ [](\A i, j \in 1..Len(collection) :
            collection[i].run_id = collection[j].run_id => i = j)
    /\ [][\A p \in Req, run_id \in StoreRunIds :
            ( /\ ReturnStep(p, "insertRun") /\ SameMode
              /\ req'[p].result.run_id = run_id
              /\ StoredRun(run_id) # None )
            => StoredRun(run_id)' = StoredRun(run_id)]_vars

\* C14: replaceRun requires an existing run: a replaceRun for a run_id the
\* store does not hold throws and creates no run, in either mode.
C14_ReplaceRequiresExisting ==
    [][\A p \in Req, run_id \in StoreRunIds :
         ( /\ pc[p] # "done" /\ pc'[p] = "done" /\ SameMode
           /\ req'[p].type = "replaceRun" /\ req'[p].run_id = run_id
           /\ StoredRun(run_id) = None )
         => /\ response'[p].error # ""
            /\ StoredRun(run_id)' = None]_vars


\* C18: a run store operation never throws because the durable backend is
\* unavailable: every getRun, insertRun and replaceRun call returns to its
\* caller, also when the collection's operation fails after the connect.
C18_StoreOperationNeverFails ==
    \A p \in Req : pc[p] = "done" => response[p].error = ""


\* C15: once the insertRun of a createRun has completed, getRun finds a run
\* under its run_id at every later moment, whatever the connection attempts
\* of other requests do.
C15_InsertedRunStaysReadable ==
    \A p \in Req :
        (IsIntake(p) /\ Succeeded(p)) => StoredRun(randomUUID_run(p)) # None


\* C16: once useMemoryFallback is set it stays set, and no request starts a
\* connection attempt while it is set.
C16_NoReconnectAfterFallback ==
    /\ [][useMemoryFallback => useMemoryFallback']_vars
    /\ [][\A p \in Req :
            (useMemoryFallback /\ pc[p] # "connecting") => pc'[p] # "connecting"]_vars

\* After the one failed connect, two runs were stored in the Map: the second
\* insertRun ran with the flag set.
C16_Witness ==
    /\ useMemoryFallback /\ warnings = 1
    /\ \E r1, r2 \in RunIds : r1 # r2 /\ memoryStore[r1] # 0 /\ memoryStore[r2] # 0


\* C17: the "MongoDB unavailable" warning is written at most once in the
\* life of the process.
C17_WarnsAtMostOnce == warnings <= 1

\* C19: a step in which no insertRun or replaceRun is performed, and in which
\* the store does not change mode, leaves what getRun returns for every
\* run_id unchanged.
C19_ReadsStableWithoutWrites ==
    [][((\A p \in Req : ~SuccessStep(p)) /\ SameMode)
        => \A run_id \in RunIds : StoredRun(run_id)' = StoredRun(run_id)]_vars

\* C20: the lens evaluators a submitClarification invokes all receive the
\* clarifications read from the store followed by the submitted round.
C20_LensesReceiveHistory ==
    \A p \in Req :
        (IsClarification(p) /\ ranLenses[p]) =>
            LET history == Append(before[p][1].clarifications, ClarificationOf(req[p]))
                calls == runLensesCalls(before[p][1].intake, history)
            IN /\ calls # <<>>
               /\ \A i \in DOMAIN calls : calls[i].clarifications = history


\* The lens evaluator calls request p's runLenses has made.
LensCallsOf(p) ==
    IF IsIntake(p) THEN runLensesCalls(IntakeOf(p), <<>>)
    ELSE runLensesCalls(before[p][1].intake, before[p][1].clarifications)

\* C21: a request that has called runLenses has started every configured
\* lens evaluator (risk, reversibility, people) before waiting for any.
C21_AllLensesLaunched ==
    \A p \in Req :
        ranLenses[p] =>
            \A k \in DOMAIN ConfiguredLenses :
                \E i \in DOMAIN LensCallsOf(p) :
                    LensCallsOf(p)[i].lens = ConfiguredLenses[k]


\* ------------------------------- clarification answers in the lens prompts
\* The values ClarificationAnswer.answer holds: string | boolean | number.
\* (t is typeof value; the field of the type holds the value)
JsString(s) == [t |-> "string", s |-> s, b |-> FALSE, n |-> 0]
JsBoolean(b) == [t |-> "boolean", s |-> "", b |-> b, n |-> 0]
JsNumber(n) == [t |-> "number", s |-> "", b |-> FALSE, n |-> n]

DigitChar(d) == <<"0", "1", "2", "3", "4", "5", "6", "7", "8", "9">>[d + 1]

\* The decimal digits of a non-negative integer.
RECURSIVE Digits(_)
Digits(n) == IF n < 10 THEN <<DigitChar(n)>> ELSE Digits(n \div 10) \o <<DigitChar(n % 10)>>

\* String(value), as the sequence of the pieces of text it is made of.
String(x) ==
    IF x.t = "string" THEN <<x.s>>
    ELSE IF x.t = "boolean" THEN (IF x.b THEN <<"true">> ELSE <<"false">>)
    ELSE Digits(x.n)

\* `- ${a.question_id} (${a.lens}): ${text}`
AnswerLine(a, text) == <<"- ", a.question_id, " (", a.lens, "): ">> \o text

\* lenses/risk.ts: String(a.answer)
riskAnswerText(a) == String(a.answer)

\* lenses/reversibility.ts
reversibilityAnswerText(a) ==
    IF a.answer = JsString("unknown") THEN <<"unknown (user didn't know)">>
    ELSE String(a.answer)

\* the people lens
peopleAnswerText(a) ==
    IF a.answer = JsString("unknown") THEN <<"unknown (user didn't know)">>
    ELSE IF a.answer_type = "percentage" /\ a.answer.t = "number"
         THEN String(a.answer) \o <<"%">>
    ELSE String(a.answer)

answerText(lens, a) ==
    IF lens = "risk" THEN riskAnswerText(a)
    ELSE IF lens = "reversibility" THEN reversibilityAnswerText(a)
    ELSE peopleAnswerText(a)

\* c.answers.map(...) of the lens's formatter
RECURSIVE answerLines(_, _)
answerLines(lens, answers) ==
    IF answers = <<>> THEN <<>>
    ELSE <<AnswerLine(Head(answers), answerText(lens, Head(answers)))>>
         \o answerLines(lens, Tail(answers))

\* clarifications.flatMap(...)
RECURSIVE flatAnswerLines(_, _)
flatAnswerLines(lens, clarifications) ==
    IF clarifications = <<>> THEN <<>>
    ELSE answerLines(lens, Head(clarifications).answers)
         \o flatAnswerLines(lens, Tail(clarifications))

analysisName(lens) ==
    IF lens = "people" THEN "people and execution" ELSE lens

\* formatClarificationsForPrompt of the lens: "" for no clarifications, else
\* the heading, the lines joined by "\n" and the closing instruction.
formatClarificationsForPrompt(lens, clarifications) ==
    IF Len(clarifications) = 0
    THEN [heading |-> "", lines |-> <<>>, closing |-> <<>>]
    ELSE [heading |-> "## Follow-up answers from the user",
          lines |-> flatAnswerLines(lens, clarifications),
          closing |-> <<"Use these answers to refine your ", analysisName(lens),
                        " analysis. Do not ask the same questions again.">>]


AnswerTypes == {"enum", "boolean", "numeric", "percentage", "short_text"}

\* Answers the result page can submit for a question.
FormatAnswers ==
    [question_id : {"q1"},
     lens : {"risk", "reversibility", "people"},
     answer : {JsString("unknown"), JsString("Intermediate"), JsBoolean(TRUE),
               JsBoolean(FALSE), JsNumber(50), JsNumber(7)},
     answer_type : AnswerTypes]

FormatClarification(round, answers) ==
    [decision_id |-> 201, run_id |-> 1, clarification_round |-> round, answers |-> answers]

FormatInputs ==
    {<<>>}
    \cup { <<FormatClarification(1, <<a>>)>> : a \in FormatAnswers }
    \cup { <<FormatClarification(1, <<a>>), FormatClarification(2, <<b, a>>)>> :
             a \in { x \in FormatAnswers : x.answer = JsString("unknown") /\ x.lens = "risk" },
             b \in { x \in FormatAnswers : x.answer = JsNumber(50) /\ x.lens = "people" } }

InitFormat ==
    /\ database_db = FALSE
    /\ useMemoryFallback = FALSE
    /\ warnings = 0
    /\ collection = <<>>
    /\ memoryStore = [r \in RunIds |-> 0]
    /\ heap = [p \in Req |-> None]
    /\ pc = [p \in Req |-> "idle"]
    /\ \E lens \in {"risk", "reversibility", "people"}, clarifications \in FormatInputs :
          req = [p \in Req |-> IF p = 1
                               THEN [type |-> "format", lens |-> lens,
                                     clarifications |-> clarifications]
                               ELSE [type |-> "none"]]
    /\ existingRun = [p \in Req |-> 0]
    /\ before = [p \in Req |-> None]
    /\ response = [p \in Req |-> NoResponse]
    /\ ranLenses = [p \in Req |-> FALSE]

\* The lens builds its prompt: formatClarificationsForPrompt(clarifications).
FormatStep ==
    /\ pc[1] = "idle"
    /\ pc' = [pc EXCEPT ![1] = "done"]
    /\ response' = [response EXCEPT ![1] =
          Returned(formatClarificationsForPrompt(req[1].lens, req[1].clarifications))]
    /\ UNCHANGED <<database_db, useMemoryFallback, warnings, collection, memoryStore,
                   heap, req, existingRun, before, ranLenses>>

NextFormat == FormatStep

SpecFormat == InitFormat /\ [][NextFormat]_vars

\* The rendering the claim gives for one answer.
C23_Rendered(a) ==
    <<"- ", a.question_id, " (", a.lens, "): ">> \o
    ( IF a.answer = JsString("unknown") THEN <<"unknown (user didn't know)">>
      ELSE IF a.answer_type = "percentage" /\ a.answer.t = "number"
           THEN Digits(a.answer.n) \o <<"%">>
      ELSE String(a.answer) )

\* C23: in the prompt of every lens each clarification answer has its line
\* "<question_id> (<lens>): <value>", with "unknown" rendered as
\* "unknown (user didn't know)" and a percentage number n as "n%".
C23_AnswersRendered ==
    pc[1] = "done" =>
        \A i \in DOMAIN req[1].clarifications :
            \A j \in DOMAIN req[1].clarifications[i].answers :
                \E k \in DOMAIN response[1].body.lines :
                    response[1].body.lines[k] =
                        C23_Rendered(req[1].clarifications[i].answers[j])


\* ------------------------------------------------------- process restart
\* As StoreRestart, but the fallback flag outlives the process.
StoreRestart_KeepsFallback ==
    /\ \E p \in Req : pc[p] \notin {"idle", "gone"}
    /\ pc' = [p \in Req |-> IF pc[p] = "idle" THEN "idle" ELSE "gone"]
    /\ memoryStore' = [r \in RunIds |-> 0]
    /\ heap' = [p \in Req |-> None]
    /\ database_db' = FALSE
    /\ warnings' = 0
    /\ UNCHANGED <<useMemoryFallback, collection, req, response, existingRun, before,
                   ranLenses>>

\* The server process is stopped and started again.  The modules are loaded
\* anew (memoryStore = new Map(), useMemoryFallback = false, database.db =
\* null, an empty console); the calls of the old process are gone with it;
\* the MongoDB collection outlives the process.
StoreRestart ==
    /\ \E p \in Req : pc[p] \notin {"idle", "gone"}
    /\ pc' = [p \in Req |-> IF pc[p] = "idle" THEN "idle" ELSE "gone"]
    /\ memoryStore' = [r \in RunIds |-> 0]
    /\ heap' = [p \in Req |-> None]
    /\ useMemoryFallback' = FALSE
    /\ database_db' = FALSE
    /\ warnings' = 0
    /\ UNCHANGED <<collection, req, response, existingRun, before, ranLenses>>

NextRestart ==
    \/ NextStore
    \/ StoreRestart

SpecRestart == Init /\ [][NextRestart]_vars

C25_NoTransientStatus ==
    /\ \A run_id \in RunIds :
          StoredRun(run_id) # None => StoredRun(run_id)[1].status \in {AWAITING, "complete"}
    /\ \A p \in Req :
          response[p].body # None => response[p].body[1].status \in {AWAITING, "complete"}

\* C26: every run either store holds has at most one entry in clarifications.
C26_AtMostOneRound ==
    \A run \in StoredRuns : Len(run.clarifications) <= 1

\* A second submission for a run whose first submission was stored.
C26_Witness ==
    \E p, q \in Req :
        /\ p # q /\ IsClarification(p) /\ IsClarification(q)
        /\ req[p].run_id = req[q].run_id
        /\ Succeeded(p) /\ pc[q] = "done" /\ before[q] # None
        /\ StoredRun(req[p].run_id) # None
        /\ Len(StoredRun(req[p].run_id)[1].clarifications) = 1

\* C27: in every stored run with status complete, every lens output has an
\* empty questions_to_answer_next.
C27_CompleteRunHasNoOpenQuestions ==
    \A run_id \in RunIds :
        (StoredRun(run_id) # None /\ StoredRun(run_id)[1].status = "complete") =>
            \A i \in DOMAIN StoredRun(run_id)[1].lens_outputs :
                StoredRun(run_id)[1].lens_outputs[i].questions_to_answer_next = <<>>


\* The pending questions of run marked required that answers leave unanswered.
UnansweredRequired(run, answers) ==
    { i \in DOMAIN run.clarification_questions :
        /\ run.clarification_questions[i].required
        /\ \A j \in DOMAIN answers :
              \/ answers[j].question_id # run.clarification_questions[i].question_id
              \/ answers[j].lens # run.clarification_questions[i].lens }

\* C28: a clarification submission that goes on to the lens re-run answers
\* every required pending question of the run it read.
C28_RequiredQuestionsAnswered ==
    \A p \in Req :
        (IsClarification(p) /\ ranLenses[p]) =>
            UnansweredRequired(before[p][1], req[p].clarification.answers) = {}

ValidationMessages ==
    {"decision_id is required", "run_id is required", "clarification.answers is required"}

C29_ShouldReject(r) ==
    \/ r.decision_id \in {0, BlankId}
    \/ r.run_id \in {0, BlankId}
    \/ r.clarification.answers = <<>>

\* C29: a clarification request is answered 400 with a validation message
\* exactly when decision_id or run_id is empty or blank or answers is empty;
\* such a request ends in the step it arrives in, without reading the store
\* and without writing anything.
C29_ClarificationValidation ==
    /\ [](\A p \in Req :
            (IsClarification(p) /\ pc[p] # "idle") =>
                /\ (response[p].status = 400 /\ response[p].error \in ValidationMessages)
                       <=> C29_ShouldReject(req[p])
                /\ C29_ShouldReject(req[p]) =>
                       /\ pc[p] = "done" /\ before[p] = None
                       /\ ~ranLenses[p] /\ existingRun[p] = 0)
    /\ [][\A p \in Req :
            ( /\ pc[p] = "idle" /\ pc'[p] # "idle"
              /\ IsClarification(p)' /\ C29_ShouldReject(req'[p]) )
            => /\ pc'[p] = "done"
               /\ UNCHANGED <<collection, memoryStore, heap>>]_vars

\* One request was rejected by the validation; another, which leaves a
\* required pending question unanswered, passed it and reached the lenses.
C29_Witness ==
    \E p, q \in Req :
        /\ IsClarification(q) /\ pc[q] = "done" /\ C29_ShouldReject(req[q])
        /\ IsClarification(p) /\ ranLenses[p]
        /\ UnansweredRequired(before[p][1], req[p].clarification.answers) # {}

\* C30: in every stored run the first clarification has clarification_round
\* 1 and the rounds increase strictly.
C30_RoundsStartAtOneAndIncrease ==
    \A run \in StoredRuns :
        /\ run.clarifications # <<>> => run.clarifications[1].clarification_round = 1
        /\ \A i \in 1..(Len(run.clarifications) - 1) :
              run.clarifications[i].clarification_round
                  < run.clarifications[i + 1].clarification_round


\* The run_id request p's transition is about.
RunOf(p) == IF IsIntake(p) THEN randomUUID_run(p) ELSE req[p].run_id

\* What the two stores hold under run_id.
StoreEntry(run_id) == <<findOne(collection, run_id), memoryGet(run_id)>>

\* C31: a step of a request leaves what either store holds under every other
\* run_id unchanged, also for runs with the same decision_id, and two
\* successful submitIntake calls return distinct run_ids.
C31_RunsNeverInteract ==
    /\ [][\A p \in Req, run_id \in RunIds :
            (pc'[p] # pc[p] /\ run_id # RunOf(p)')
            => StoreEntry(run_id)' = StoreEntry(run_id)]_vars
    /\ [](\A p, q \in Req :
            (p # q /\ IsIntake(p) /\ IsIntake(q) /\ Succeeded(p) /\ Succeeded(q))
            => response[p].body[1].run_id # response[q].body[1].run_id)

\* A clarification completed one of two stored runs of the same decision.
C31_Witness ==
    \E p \in Req, run_id \in RunIds :
        /\ IsClarification(p) /\ Succeeded(p) /\ run_id # req[p].run_id
        /\ StoredRun(run_id) # None
        /\ StoredRun(run_id)[1].decision_id = response[p].body[1].decision_id
        /\ StoredRun(run_id)[1].status = AWAITING


\* C32: in every version of a run either store holds, intake, decision_id and
\* run_id are those the run's submitIntake stored.
C32_IntakeFieldsNeverChange ==
    \A run \in StoredRuns :
        /\ run.run_id \in Req /\ IsIntake(run.run_id)
        /\ run.run_id = randomUUID_run(run.run_id)
        /\ run.intake = IntakeOf(run.run_id)
        /\ run.decision_id = IntakeOf(run.run_id).decision_id

\* A stored run completed by a clarification sent with another decision_id.
C32_Witness ==
    \E p \in Req :
        /\ IsClarification(p) /\ Succeeded(p)
        /\ StoredRun(req[p].run_id) # None
        /\ StoredRun(req[p].run_id)[1].status = "complete"
        /\ StoredRun(req[p].run_id)[1].decision_id # req[p].decision_id


\* C33: the run a successful submitClarification stores has as lens_outputs
\* exactly what the re-run returned, one output per configured lens.
C33_LensOutputsReplaced ==
    [][\A p \in Req, run_id \in RunIds :
         ( /\ SuccessStep(p) /\ IsClarification(p) /\ req[p].run_id = run_id
           /\ StoredRun(run_id)' # None )
         => /\ StoredRun(run_id)'[1].lens_outputs
                  \in { runLenses(riskOutput) : riskOutput \in RiskOutputs }
            /\ Len(StoredRun(run_id)'[1].lens_outputs) = Len(ConfiguredLenses)]_vars


\* C34: in the step in which a transition responds with success its run has
\* been persisted: a getRun(run_id) issued right after the response returns
\* a run equal to the returned one in every DecisionRunResult field.
C34_ResponseIsPersistedRun ==
    [][\A p \in Req, run_id \in RunIds :
         (SuccessStep(p) /\ run_id = response'[p].body[1].run_id)
         => /\ StoredRun(run_id)' # None
            /\ SameRun(StoredRun(run_id)'[1], response'[p].body[1])]_vars


\* C39: every clarification in a stored run carries the run_id and the
\* decision_id of that run.
C39_ClarificationsBelongToRun ==
    \A run \in StoredRuns :
        \A i \in DOMAIN run.clarifications :
            /\ run.clarifications[i].run_id = run.run_id
            /\ run.clarifications[i].decision_id = run.decision_id


\* --------------------------------------------------- one lens evaluation
\* raw.field ?? dflt, for a field that is None when the parsed JSON lacks it
Nullish(field, dflt) == IF field = None THEN dflt ELSE field[1]

\* llm/openai.ts createError(code, message, retryable = false)
createError(code, message, retryable) ==
    [name |-> "LLMError", code |-> code, message |-> message, provider |-> "openai",
     retryable |-> Some(retryable)]

\* new Error(message): no code, no retryable property
Error(message) ==
    [name |-> "Error", code |-> <<>>, message |-> message, provider |-> "",
     retryable |-> None]

Throw(error) == [thrown |-> TRUE, error |-> error, value |-> None]
Return(value) == [thrown |-> FALSE, error |-> Error(<<>>), value |-> Some(value)]

\* What the call to the provider comes to: no OPENAI_API_KEY, an HTTP
\* status that is not ok, or a 200 whose content parsed (Some) or not (None).
LlmOutcome(kind, status, parsed) == [kind |-> kind, status |-> status, parsed |-> parsed]

\* llm/openai.ts run(messages, {schema})
openai_run(llm) ==
    IF llm.kind = "missing_key"
    THEN Throw(createError(<<"MISSING_API_KEY">>,
                           <<"OPENAI_API_KEY environment variable is not set">>, FALSE))
    ELSE IF llm.kind = "http"
    THEN Throw(createError(<<"HTTP_">> \o Digits(llm.status),
                           <<"OpenAI API error: ">> \o Digits(llm.status),
                           llm.status >= 500 \/ llm.status = 429))
    ELSE Return([parsed |-> llm.parsed])

RECURSIVE mapBlindSpots(_)
mapBlindSpots(bs) ==
    IF bs = <<>> THEN <<>>
    ELSE <<[area |-> Head(bs).area, description |-> Head(bs).description]>>
         \o mapBlindSpots(Tail(bs))

RECURSIVE mapQuestions(_, _)
mapQuestions(lens, qs) ==
    IF qs = <<>> THEN <<>>
    ELSE <<[question_id |-> Head(qs).question_id, lens |-> lens,
            question_text |-> Head(qs).question_text,
            answer_type |-> Head(qs).answer_type, required |-> Head(qs).required]>>
         \o mapQuestions(lens, Tail(qs))

RECURSIVE mapImpacts(_)
mapImpacts(xs) ==
    IF xs = <<>> THEN <<>>
    ELSE <<[stakeholder |-> Head(xs).stakeholder, impact |-> Head(xs).impact,
            sentiment |-> IF Head(xs).sentiment \in {"positive", "negative", "neutral"}
                          THEN Head(xs).sentiment ELSE "neutral"]>>
         \o mapImpacts(Tail(xs))

RECURSIVE mapTradeoffs(_)
mapTradeoffs(ts) ==
    IF ts = <<>> THEN <<>>
    ELSE <<[option |-> Head(ts).option, upside |-> Head(ts).upside,
            downside |-> Head(ts).downside]>>
         \o mapTradeoffs(Tail(ts))

\* The fields parseRiskOutput, parseReversibilityOutput and parsePeopleOutput
\* fill the same way.
parseBase(lens, raw) ==
    [lens |-> lens,
     confidence |-> Nullish(raw.confidence, "medium"),
     assumptions_detected |-> Nullish(raw.assumptions_detected, <<>>),
     blind_spots |-> mapBlindSpots(Nullish(raw.blind_spots, <<>>)),
     tradeoffs |-> mapTradeoffs(Nullish(raw.tradeoffs, <<>>)),
     remaining_uncertainty |-> Nullish(raw.remaining_uncertainty, <<>>),
     questions_to_answer_next |-> mapQuestions(lens, Nullish(raw.questions_to_answer_next, <<>>))]

parseRiskOutput(raw) ==
    parseBase("risk", raw) @@ [top_risks |-> Nullish(raw.top_risks, <<>>)]

parseReversibilityOutput(raw) ==
    parseBase("reversibility", raw)
    @@ [irreversible_steps |-> Nullish(raw.irreversible_steps, <<>>),
        safe_to_try_first |-> Nullish(raw.safe_to_try_first, <<>>)]

parsePeopleOutput(raw) ==
    parseBase("people", raw)
    @@ [stakeholder_impacts |-> mapImpacts(Nullish(raw.stakeholder_impacts, <<>>)),
        execution_risks |-> Nullish(raw.execution_risks, <<>>)]

parseOutput(lens, raw) ==
    IF lens = "risk" THEN parseRiskOutput(raw)
    ELSE IF lens = "reversibility" THEN parseReversibilityOutput(raw)
    ELSE parsePeopleOutput(raw)

lensTitle(lens) ==
    IF lens = "risk" THEN "Risk" ELSE IF lens = "reversibility" THEN "Reversibility" ELSE "People"

\* runRiskLens / runReversibilityLens / runPeopleLens, given what the call
\* to the provider comes to.
runLens(lens, llm) ==
    LET llmResponse == openai_run(llm) IN
    IF llmResponse.thrown THEN llmResponse
    ELSE IF llmResponse.value[1].parsed = None
    THEN Throw(Error(<<lensTitle(lens), " lens did not return valid structured output">>))
    ELSE Return(parseOutput(lens, llmResponse.value[1].parsed[1]))


\* The parsed JSON objects of the structured answer; a field the JSON lacks
\* is None.
RawBase ==
    [confidence : {None, Some("high")},
     assumptions_detected : {None, Some(<<"a1">>)},
     blind_spots : {None, Some(<<[area |-> "ops", description |-> "no runbook"]>>)},
     tradeoffs : {None, Some(<<[option |-> "wait", upside |-> "safe", downside |-> "slow"]>>)},
     remaining_uncertainty : {None, Some(<<"u1">>)},
     questions_to_answer_next :
        {None, Some(<<[question_id |-> "q1", question_text |-> "q1",
                       answer_type |-> "enum", required |-> TRUE]>>)}]

RawOutputs(lens) ==
    IF lens = "risk"
    THEN { b @@ [top_risks |-> f] : b \in RawBase, f \in {None, Some(<<"r1">>)} }
    ELSE IF lens = "reversibility"
    THEN { b @@ [irreversible_steps |-> f, safe_to_try_first |-> g] :
             b \in RawBase, f \in {None, Some(<<"s1">>)}, g \in {None, Some(<<"t1">>)} }
    ELSE { b @@ [stakeholder_impacts |-> f, execution_risks |-> g] :
             b \in RawBase,
             f \in {None, Some(<<[stakeholder |-> "team", impact |-> "retraining",
                                  sentiment |-> "mixed"]>>)},
             g \in {None, Some(<<"e1">>)} }

LlmOutcomes(lens) ==
    {LlmOutcome("missing_key", 0, None), LlmOutcome("ok", 200, None)}
    \cup { LlmOutcome("http", status, None) : status \in {400, 401, 429, 500, 503} }
    \cup { LlmOutcome("ok", 200, Some(raw)) : raw \in RawOutputs(lens) }

InitLens ==
    /\ database_db = FALSE
    /\ useMemoryFallback = FALSE
    /\ warnings = 0
    /\ collection = <<>>
    /\ memoryStore = [r \in RunIds |-> 0]
    /\ heap = [p \in Req |-> None]
    /\ pc = [p \in Req |-> "idle"]
    /\ \E k \in DOMAIN ConfiguredLenses :
         \E llm \in LlmOutcomes(ConfiguredLenses[k]) :
            req = [p \in Req |-> IF p = 1
                                 THEN [type |-> "lens", lens |-> ConfiguredLenses[k],
                                       llm |-> llm]
                                 ELSE [type |-> "none"]]
    /\ existingRun = [p \in Req |-> 0]
    /\ before = [p \in Req |-> None]
    /\ response = [p \in Req |-> NoResponse]
    /\ ranLenses = [p \in Req |-> FALSE]

\* The lens is run for a request: it returns its output or throws.
RunLensStep ==
    /\ pc[1] = "idle"
    /\ pc' = [pc EXCEPT ![1] = "evaluated"]
    /\ ranLenses' = [ranLenses EXCEPT ![1] = TRUE]
    /\ heap' = [heap EXCEPT ![1] = Some(runLens(req[1].lens, req[1].llm))]
    /\ UNCHANGED <<database_db, useMemoryFallback, warnings, collection, memoryStore,
                   req, existingRun, before, response>>

\* What the lens threw leaves runLenses and the handler; the request is
\* answered 500 "Internal server error".
SurfaceLensError ==
    /\ pc[1] = "evaluated"
    /\ heap[1][1].thrown
    /\ pc' = [pc EXCEPT ![1] = "done"]
    /\ response' = [response EXCEPT ![1] = ErrorResponse(500, "Internal server error")]
    /\ UNCHANGED <<database_db, useMemoryFallback, warnings, collection, memoryStore,
                   heap, req, existingRun, before, ranLenses>>

NextLens ==
    \/ RunLensStep
    \/ SurfaceLensError

SpecLens == InitLens /\ [][NextLens]_vars

CoreFields(lens) ==
    IF lens = "risk" THEN {"top_risks"}
    ELSE IF lens = "reversibility" THEN {"irreversible_steps", "safe_to_try_first"}
    ELSE {"stakeholder_impacts", "execution_risks"}

NonCriticalFields ==
    {"assumptions_detected", "blind_spots", "tradeoffs", "remaining_uncertainty"}

\* C35: a lens evaluation whose parsed output lacks a core analytical field
\* throws, and one that lacks only non-critical list fields returns an output
\* with those fields empty.
C35_CoreFieldsRequired ==
    (pc[1] # "idle" /\ req[1].llm.kind = "ok" /\ req[1].llm.parsed # None) =>
        LET raw == req[1].llm.parsed[1]
            result == heap[1][1]
        IN /\ result.thrown <=> \E f \in CoreFields(req[1].lens) : raw[f] = None
           /\ ~result.thrown =>
                \A f \in NonCriticalFields : raw[f] = None => result.value[1][f] = <<>>

\* C36: the error a failed lens evaluation is answered with carries a
\* retryable flag, true exactly for HTTP 429 and for a status of 500 or more.
C36_RetryableFlagSurfaced ==
    (pc[1] = "done" /\ heap[1][1].thrown) =>
        /\ "retryable" \in DOMAIN response[1]
        /\ response[1].retryable =
              ( /\ req[1].llm.kind = "http"
                /\ (req[1].llm.status = 429 \/ req[1].llm.status >= 500) )


\* ------------------------------------------- extractClarificationQuestions
LensQuestion(lens, q) ==
    [question_id |-> q, lens |-> lens, question_text |-> q,
     answer_type |-> "enum", required |-> TRUE]

MaxLensOutputs == Len(ConfiguredLenses)

\* The outputs of the first n configured lenses, each with its own
\* questions; two lenses may use the same question_id.
ExtractOutputs(lens) ==
    { [lens |-> lens, questions_to_answer_next |-> qs] :
        qs \in { <<>>,
                 <<LensQuestion(lens, "q1")>>,
                 <<LensQuestion(lens, "q1"), LensQuestion(lens, "q2")>>,
                 <<LensQuestion(lens, "q2"), LensQuestion(lens, "q1")>>,
                 <<LensQuestion(lens, "q1"), LensQuestion(lens, "q1")>> } }

ExtractInputs ==
    UNION { { outs \in [1..n -> UNION { ExtractOutputs(ConfiguredLenses[k]) : k \in 1..n }] :
                \A k \in 1..n : outs[k].lens = ConfiguredLenses[k] } :
            n \in 0..MaxLensOutputs }

InitExtract ==
    /\ database_db = FALSE
    /\ useMemoryFallback = FALSE
    /\ warnings = 0
    /\ collection = <<>>
    /\ memoryStore = [r \in RunIds |-> 0]
    /\ heap = [p \in Req |-> None]
    /\ pc = [p \in Req |-> "idle"]
    /\ \E outs \in ExtractInputs :
            req = [p \in Req |-> IF p = 1
                                 THEN [type |-> "extract", lensOutputs |-> outs]
                                 ELSE [type |-> "none"]]
    /\ existingRun = [p \in Req |-> 0]
    /\ before = [p \in Req |-> None]
    /\ response = [p \in Req |-> NoResponse]
    /\ ranLenses = [p \in Req |-> FALSE]

ExtractStep ==
    /\ pc[1] = "idle"
    /\ pc' = [pc EXCEPT ![1] = "done"]
    /\ response' = [response EXCEPT
                      ![1] = Returned(Some(extractClarificationQuestions(req[1].lensOutputs)))]
    /\ UNCHANGED <<database_db, useMemoryFallback, warnings, collection, memoryStore,
                   heap, req, existingRun, before, ranLenses>>

NextExtract == ExtractStep

SpecExtract == InitExtract /\ [][NextExtract]_vars

\* The number of questions in the outputs before the i-th.
RECURSIVE QuestionsBefore(_, _)
QuestionsBefore(outs, i) ==
    IF i <= 1 THEN 0
    ELSE QuestionsBefore(outs, i - 1) + Len(outs[i - 1].questions_to_answer_next)

\* C37: the extracted list has every question of every lens output, in the
\* order of the outputs and within an output in the lens's own order,
\* nothing dropped, merged or deduplicated, each with its originating lens.
C37_QuestionsConcatenated ==
    pc[1] = "done" =>
        LET outs == req[1].lensOutputs
            questions == response[1].body[1]
        IN /\ Len(questions) = QuestionsBefore(outs, Len(outs) + 1)
           /\ \A i \in DOMAIN outs :
                \A j \in DOMAIN outs[i].questions_to_answer_next :
                    /\ questions[QuestionsBefore(outs, i) + j]
                          = outs[i].questions_to_answer_next[j]
                    /\ questions[QuestionsBefore(outs, i) + j].lens = outs[i].lens

C37_Witness ==
    /\ pc[1] = "done"
    /\ \E a, b \in DOMAIN response[1].body[1] :
          /\ a < b
          /\ response[1].body[1][a].question_id = response[1].body[1][b].question_id
          /\ response[1].body[1][a].lens # response[1].body[1][b].lens


\* ------------------------------------------------------- brief synthesis
\* Text is the sequence of the pieces it is made of.

\* xs.join(sep) for strings
RECURSIVE JoinStrings(_, _)
JoinStrings(xs, sep) ==
    IF xs = <<>> THEN <<>>
    ELSE IF Len(xs) = 1 THEN <<Head(xs)>>
    ELSE <<Head(xs), sep>> \o JoinStrings(Tail(xs), sep)

\* parts.join(sep) for texts
RECURSIVE JoinParts(_, _)
JoinParts(parts, sep) ==
    IF parts = <<>> THEN <<>>
    ELSE IF Len(parts) = 1 THEN Head(parts)
    ELSE Head(parts) \o <<sep>> \o JoinParts(Tail(parts), sep)

\* out.blind_spots.map((b) => `${b.area}: ${b.description}`).join("; ")
RECURSIVE blindSpotTexts(_)
blindSpotTexts(bs) ==
    IF bs = <<>> THEN <<>>
    ELSE <<<<Head(bs).area, ": ", Head(bs).description>>>> \o blindSpotTexts(Tail(bs))

\* out.tradeoffs.map((t) => `${t.option} (↑ ${t.upside}, ↓ ${t.downside})`)
RECURSIVE tradeoffTexts(_)
tradeoffTexts(ts) ==
    IF ts = <<>> THEN <<>>
    ELSE <<<<Head(ts).option, " (↑ ", Head(ts).upside, ", ↓ ", Head(ts).downside, ")">>>>
         \o tradeoffTexts(Tail(ts))

\* if (field?.length) parts.push(`${label}${text}`)
pushIfAny(field, label, text) ==
    IF Len(field) > 0 THEN <<<<label>> \o text>> ELSE <<>>

\* The parts one pass of the loop of formatLensOutputs pushes.
lensOutputParts(out) ==
    IF out.lens = "risk"
    THEN <<<<"### Risk lens\n- Top risks: ">> \o JoinStrings(out.top_risks, "; ")>>
         \o pushIfAny(out.assumptions_detected, "- Assumptions: ",
                      JoinStrings(out.assumptions_detected, "; "))
         \o pushIfAny(out.blind_spots, "- Blind spots: ",
                      JoinParts(blindSpotTexts(out.blind_spots), "; "))
         \o pushIfAny(out.tradeoffs, "- Tradeoffs: ",
                      JoinParts(tradeoffTexts(out.tradeoffs), "; "))
         \o pushIfAny(out.remaining_uncertainty, "- Remaining uncertainty: ",
                      JoinStrings(out.remaining_uncertainty, "; "))
    ELSE IF out.lens = "reversibility"
    THEN <<<<"### Reversibility lens\n- Irreversible steps: ">>
           \o JoinStrings(out.irreversible_steps, "; ")>>
         \o pushIfAny(out.safe_to_try_first, "- Safe to try first: ",
                      JoinStrings(out.safe_to_try_first, "; "))
         \o pushIfAny(out.assumptions_detected, "- Assumptions: ",
                      JoinStrings(out.assumptions_detected, "; "))
         \o pushIfAny(out.tradeoffs, "- Tradeoffs: ",
                      JoinParts(tradeoffTexts(out.tradeoffs), "; "))
    ELSE <<>>

RECURSIVE lensParts(_)
lensParts(lensOutputs) ==
    IF lensOutputs = <<>> THEN <<>>
    ELSE lensOutputParts(Head(lensOutputs)) \o lensParts(Tail(lensOutputs))

\* As lensParts, with a branch for the people lens.
RECURSIVE lensPartsWithPeople(_)
lensPartsWithPeople(lensOutputs) ==
    IF lensOutputs = <<>> THEN <<>>
    ELSE lensOutputParts(Head(lensOutputs))
         \o (IF Head(lensOutputs).lens = "people"
             THEN <<<<"### People lens\n- Execution risks: ">>
                    \o JoinStrings(Head(lensOutputs).execution_risks, "; ")>>
             ELSE <<>>)
         \o lensPartsWithPeople(Tail(lensOutputs))

formatLensOutputs_WithPeople(lensOutputs) ==
    JoinParts(lensPartsWithPeople(lensOutputs), "\n")

formatLensOutputs(lensOutputs) ==
    JoinParts(lensParts(lensOutputs), "\n")

\* c.answers.map((a) => `- ${a.question_id} (${a.lens}): ${String(a.answer)}`)
RECURSIVE briefAnswerLines(_)
briefAnswerLines(answers) ==
    IF answers = <<>> THEN <<>>
    ELSE <<AnswerLine(Head(answers), String(Head(answers).answer))>>
         \o briefAnswerLines(Tail(answers))

RECURSIVE flatBriefAnswerLines(_)
flatBriefAnswerLines(clarifications) ==
    IF clarifications = <<>> THEN <<>>
    ELSE briefAnswerLines(Head(clarifications).answers)
         \o flatBriefAnswerLines(Tail(clarifications))

formatClarifications(clarifications) ==
    IF Len(clarifications) = 0 THEN <<>>
    ELSE <<"\n\n## Follow-up answers from the user\n">>
         \o JoinParts(flatBriefAnswerLines(clarifications), "\n")

\* JavaScript truthiness of an optional string.
truthy(s) == s # UNDEF /\ s # ""

systemPrompt ==
    <<"You are a decision coach. Given a decision context and analyses from risk and reversibility lenses, produce a brief decision brief.",
      "\n\nOutput:\n- title: A short, contextual title (e.g. \"Recommendation: Proceed with DB switch after staging\" or \"Exploring database migration options\"). Not generic like \"Decision brief\".",
      "\n- summary: 2-4 sentences that synthesize the situation and the key findings for a busy reader.",
      "\n- recommendation: One clear sentence on what the decision-maker should do next.",
      "\n- key_considerations: 3-7 short items to keep in mind.",
      "\n- next_steps: 3-7 concrete, actionable next steps.",
      "\n\nBe specific to this decision. Avoid generic advice. Use the lens analyses and any user follow-up answers.">>

buildBriefPrompt(intake, lensOutputs, clarifications) ==
    LET lensBlock == formatLensOutputs(lensOutputs)
        clarBlock == formatClarifications(clarifications)
        userContent ==
            <<"## Decision context\n\n**Situation:** ", intake.situation,
              "\n\n**Constraints:** ", intake.constraints,
              "\n\n**Posture:** ", intake.posture>>
            \o (IF truthy(intake.leaning_direction)
                THEN <<" · Leaning toward: ", intake.leaning_direction>> ELSE <<>>)
            \o <<"\n">>
            \o (IF truthy(intake.knowns_assumptions)
                THEN <<"\n**Knowns/assumptions:** ", intake.knowns_assumptions>> ELSE <<>>)
            \o <<"\n">>
            \o (IF truthy(intake.unknowns)
                THEN <<"\n**Unknowns:** ", intake.unknowns>> ELSE <<>>)
            \o <<"\n\n## Lens analyses\n\n">>
            \o lensBlock
            \o <<"\n">>
            \o clarBlock
            \o <<"\n\nProduce the decision brief (title, summary, recommendation, key_considerations, next_steps).">>
    IN <<[role |-> "system", content |-> systemPrompt],
         [role |-> "user", content |-> userContent]>>

BriefIntakes ==
    { [situation |-> "Switch DB", constraints |-> "3mo, 2 devs", posture |-> "explore",
       leaning_direction |-> UNDEF, knowns_assumptions |-> UNDEF, unknowns |-> UNDEF],
      [situation |-> "Switch DB", constraints |-> "3mo, 2 devs", posture |-> "pressure_test",
       leaning_direction |-> "switch", knowns_assumptions |-> "team knows SQL",
       unknowns |-> ""],
      [situation |-> "Switch DB", constraints |-> "3mo, 2 devs", posture |-> "surface_risks",
       leaning_direction |-> UNDEF, knowns_assumptions |-> "", unknowns |-> "cost"] }

\* What the parsers return for answers without confidence and questions.
BriefRiskOutputs ==
    { parseRiskOutput(raw) :
        raw \in { r \in RawOutputs("risk") :
                    /\ r.confidence = None
                    /\ r.questions_to_answer_next = None
                    /\ r.remaining_uncertainty = r.assumptions_detected } }

BriefReversibilityOutputs ==
    { parseReversibilityOutput(raw) :
        raw \in { r \in RawOutputs("reversibility") :
                    /\ r.confidence = None
                    /\ r.questions_to_answer_next = None
                    /\ r.blind_spots = None
                    /\ r.remaining_uncertainty = None
                    /\ r.tradeoffs = None } }

\* The people lens's part of lensOutputs: no output, or one output.
BriefPeopleParts ==
    {<<>>}
    \cup { <<parsePeopleOutput(raw)>> :
             raw \in { r \in RawOutputs("people") :
                         /\ r.confidence = None
                         /\ r.questions_to_answer_next = None
                         /\ r.blind_spots = None
                         /\ r.remaining_uncertainty = None
                         /\ r.tradeoffs = None
                         /\ r.assumptions_detected = None } }

BriefClarifications ==
    { <<>>,
      <<FormatClarification(1, <<[question_id |-> "q1", lens |-> "people",
                                  answer |-> JsNumber(50), answer_type |-> "percentage"]>>)>> }

\* Two calls of buildBriefPrompt with the same intake and clarifications and
\* lens outputs that are the same but for the people lens's.
InitBrief ==
    /\ database_db = FALSE
    /\ useMemoryFallback = FALSE
    /\ warnings = 0
    /\ collection = <<>>
    /\ memoryStore = [r \in RunIds |-> 0]
    /\ heap = [p \in Req |-> None]
    /\ pc = [p \in Req |-> "idle"]
    /\ \E intake \in BriefIntakes, risk \in BriefRiskOutputs,
          reversibility \in BriefReversibilityOutputs,
          people \in BriefPeopleParts, otherPeople \in BriefPeopleParts,
          clarifications \in BriefClarifications :
            req = [p \in Req |-> IF p = 1
                                 THEN [type |-> "brief", intake |-> intake,
                                       lensOutputs |-> <<risk, reversibility>> \o people,
                                       otherLensOutputs |->
                                           <<risk, reversibility>> \o otherPeople,
                                       clarifications |-> clarifications]
                                 ELSE [type |-> "none"]]
    /\ existingRun = [p \in Req |-> 0]
    /\ before = [p \in Req |-> None]
    /\ response = [p \in Req |-> NoResponse]
    /\ ranLenses = [p \in Req |-> FALSE]

BriefStep ==
    /\ pc[1] = "idle"
    /\ pc' = [pc EXCEPT ![1] = "done"]
    /\ response' = [response EXCEPT ![1] = Returned(
          <<buildBriefPrompt(req[1].intake, req[1].lensOutputs, req[1].clarifications),
            buildBriefPrompt(req[1].intake, req[1].otherLensOutputs,
                             req[1].clarifications)>>)]
    /\ UNCHANGED <<database_db, useMemoryFallback, warnings, collection, memoryStore,
                   heap, req, existingRun, before, ranLenses>>

NextBrief == BriefStep

SpecBrief == InitBrief /\ [][NextBrief]_vars

NotPeople(out) == out.lens # "people"

\* C38: for the same intake and clarifications, two lensOutputs that are
\* the same once the people lens's output is left out give the same
\* messages from buildBriefPrompt.
C38_BriefIgnoresPeopleLens ==
    ( /\ pc[1] = "done"
      /\ SelectSeq(req[1].lensOutputs, NotPeople)
            = SelectSeq(req[1].otherLensOutputs, NotPeople) )
        => response[1].body[1] = response[1].body[2]

C38_Witness ==
    /\ pc[1] = "done"
    /\ Len(req[1].lensOutputs) = 3
    /\ Len(req[1].otherLensOutputs) = 3
    /\ req[1].lensOutputs[3].execution_risks # req[1].otherLensOutputs[3].execution_risks
    /\ req[1].lensOutputs[3].stakeholder_impacts # <<>>
    /\ Len(req[1].lensOutputs[1].top_risks) > 0
    /\ req[1].clarifications # <<>>

====
